---- MODULE Spec2Model ----
(***************************************************************************)
(* Memory and MemType of bindings/rust/wasmedge-sys/src/instance/memory.rs *)
(* as a state machine.                                                     *)
(*                                                                         *)
(* The Rust wrappers (MemType::create, MemType::limit, Memory::create,     *)
(* Memory::ty, get_data, set_data, data_pointer, data_pointer_mut, size,   *)
(* grow and the two Drop impls) are translated from memory.rs.  The        *)
(* functions they call through `ffi::` (the WasmEdge C API), `check` and   *)
(* the WasmEdge_Limit conversions live elsewhere in the repository; they   *)
(* are modelled from the design document (sections 3, 4 and 7).            *)
(*                                                                         *)
(* Scaling: a u32 ranges over 0 .. U32Mod - 1 (2^32 in the program; where  *)
(* the code narrows to u32 the value is taken % U32Mod), a page is         *)
(* PageSize bytes (65536 in the program), a byte is 0 or 1, and an          *)
(* allocation of more than MaxPages pages always fails.                    *)
(***************************************************************************)
EXTENDS Integers, Sequences, FiniteSets, TLC

\* ------------------------------------------------------------- bounds
U32Mod == 4
PageSize == 2

\* The address space holds U32Mod bytes: a buffer of more pages is never allocated.
MaxPages == U32Mod \div PageSize
\* The threads that share one instance.
NThreads == 2
Threads == 1 .. NThreads
U32 == 0 .. (U32Mod - 1)
U32Max == U32Mod - 1

\* A u8.  No code path looks at the value of a byte it copies, so two values
\* stand for all: 0, which zero-filling writes, and 1.
Byte == {0, 1}

\* `x as u32` of a usize x: the low WordBits bits.
AsU32(x) == x % U32Mod

Zeros(n) == [i \in 1 .. n |-> 0]
Fill(b, n) == [i \in 1 .. n |-> b]

\* The byte vectors the host passes to set_data: every vector of at most
\* PageSize bytes, and vec![1; n] for the longer lengths up to one more than
\* u32::MAX + 1 (lengths a usize holds and a u32 does not).
RECURSIVE SeqsUpTo(_)
SeqsUpTo(n) ==
    IF n = 0 THEN {<< >>}
    ELSE LET S == SeqsUpTo(n - 1)
         IN  S \cup {Append(s, b) : s \in {t \in S : Len(t) = n - 1}, b \in Byte}
DataInputs ==
    SeqsUpTo(PageSize) \cup {Fill(1, n) : n \in (PageSize + 1) .. (U32Mod + 1)}

\* ------------------------------------------------------------- state
VARIABLES
    memtype,   \* the host's MemType value (struct MemType), if it holds one
    typectx,   \* the WasmEdge_MemoryTypeContext behind memtype.inner
    memory,    \* the host's Memory value (struct Memory), if it holds one
    memctx,    \* the WasmEdge_MemoryInstanceContext behind memory.inner
    dirty,     \* a set_data succeeded or a mutable view was written since Memory::create
    ret,       \* the last call: operation, arguments, result
    created,   \* the range Memory::create made the live instance from
    tyview,    \* a MemType the host got from Memory::ty and still holds
    fault,     \* a context was deleted that was not a live, separately allocated one
    view,      \* a reference the host got from data_pointer(_mut) and still holds
    readers    \* threads inside get_data on the shared instance

vars == <<memtype, typectx, memory, memctx, dirty, ret,
          created, tyview, fault, view, readers>>

\* Handles (pointers).  The instance owns a copy of its type; Memory::ty hands
\* out a pointer to that copy.
NULL == 0
TypeHandle == 1
MemHandle == 1
InstTypeHandle == 2

NoValue == [some |-> FALSE, inner |-> NULL, registered |-> FALSE]
NoTypeCtx == [live |-> FALSE, Min |-> 0, Max |-> 0]
NoMemCtx == [live |-> FALSE, Min |-> 0, Max |-> 0, pages |-> 0, data |-> << >>]
NoLimit == <<0, 0>>
\* dangling: the instance whose type the MemType points into has been deleted.
NoTyView == [some |-> FALSE, inner |-> NULL, registered |-> FALSE, dangling |-> FALSE]
\* addr, len: the pointer and the len it was asked for; mut: &mut u8 or &u8;
\* pages: the size of the buffer it points into.
NoView == [some |-> FALSE, addr |-> NULL, len |-> 0, mut |-> FALSE, pages |-> 0]
NoReaders == [off |-> 0, len |-> 0, th |-> << >>]

Ok(v) == [ok |-> TRUE, err |-> "", val |-> v]
Err(e) == [ok |-> FALSE, err |-> e, val |-> << >>]

Call(op, off, len, data, result) ==
    [op |-> op, off |-> off, len |-> len, data |-> data,
     ok |-> result.ok, err |-> result.err, val |-> result.val]

\* ------------------------------------------------ the C API (design document)
\* check(): a WasmEdge_Result is Ok(()) when its code is Success and the error
\* named by the code otherwise.
check(code) == IF code = "Success" THEN Ok(<< >>) ELSE Err(code)

\* WasmEdge_Limit::from(RangeInclusive<u32>) and back: the range <<start, end>>
\* against the descriptor's (min, max).
LimitFromRange(range) == [Min |-> range[1], Max |-> range[2]]
RangeFromLimit(lim) == <<lim.Min, lim.Max>>

\* MemoryLimit.create: min <= max, or no descriptor (section 4.1, section 7).
WasmEdge_MemoryTypeCreate(lim) ==
    IF lim.Min > lim.Max
    THEN [ptr |-> NULL, ctx |-> NoTypeCtx]
    ELSE [ptr |-> TypeHandle, ctx |-> [live |-> TRUE, Min |-> lim.Min, Max |-> lim.Max]]

\* The descriptor a type pointer refers to: the host's own, or the instance's copy.
TypeCtxAt(ptr) ==
    IF ptr = InstTypeHandle
    THEN [live |-> memctx.live, Min |-> memctx.Min, Max |-> memctx.Max]
    ELSE typectx

\* MemoryLimit.limit: the stored range.
WasmEdge_MemoryTypeGetLimit(ptr) ==
    [Min |-> TypeCtxAt(ptr).Min, Max |-> TypeCtxAt(ptr).Max]

\* MemoryInstance.create: a zero-filled buffer of limit.min pages, with
\* current_page_count = limit.min, or nothing when the allocation fails.
\* canAlloc is the allocator's answer; more than MaxPages pages never fit.
WasmEdge_MemoryInstanceCreate(typtr, canAlloc) ==
    LET lim == WasmEdge_MemoryTypeGetLimit(typtr)
    IN  IF canAlloc /\ lim.Min <= MaxPages
        THEN [ptr |-> MemHandle,
              ctx |-> [live |-> TRUE, Min |-> lim.Min, Max |-> lim.Max,
                       pages |-> lim.Min, data |-> Zeros(lim.Min * PageSize)]]
        ELSE [ptr |-> NULL, ctx |-> NoMemCtx]

\* type_of: the limit used at construction, kept inside the instance.
WasmEdge_MemoryInstanceGetMemoryType(ptr) ==
    IF ptr = MemHandle /\ memctx.live THEN InstTypeHandle ELSE NULL

\* size(): current_page_count.
WasmEdge_MemoryInstanceGetPageSize(ptr) == memctx.pages

\* The bounds rule of every access: offset + len against the current size in
\* bytes, the sum taken without wrapping.
InBounds(ctx, offset, len) == offset + len <= ctx.pages * PageSize

\* get_data: a copy of len bytes from offset, or OutOfBounds.
WasmEdge_MemoryInstanceGetData(ptr, offset, len) ==
    IF InBounds(memctx, offset, len)
    THEN [code |-> "Success", out |-> SubSeq(memctx.data, offset + 1, offset + len)]
    ELSE [code |-> "MemoryOutOfBounds", out |-> << >>]

\* set_data: validate, then write the first len bytes at src into the buffer.
WasmEdge_MemoryInstanceSetData(ptr, src, offset, len) ==
    IF InBounds(memctx, offset, len)
    THEN [code |-> "Success",
          ctx |-> [memctx EXCEPT !.data =
                      [i \in 1 .. Len(memctx.data) |->
                          IF offset < i /\ i <= offset + len
                          THEN src[i - offset] ELSE memctx.data[i]]]]
    ELSE [code |-> "MemoryOutOfBounds", ctx |-> memctx]

\* data_pointer / data_pointer_mut: the address of the byte at offset when the
\* range is in bounds, NULL otherwise.  Addresses are 1 + the offset, so that
\* no address is NULL.
WasmEdge_MemoryInstanceGetPointerConst(ptr, offset, len) ==
    IF InBounds(memctx, offset, len) THEN offset + 1 ELSE NULL
WasmEdge_MemoryInstanceGetPointer(ptr, offset, len) ==
    IF InBounds(memctx, offset, len) THEN offset + 1 ELSE NULL

\* grow: new_count = current_page_count + delta_pages by checked addition;
\* fails when the sum does not fit a u32, when it exceeds limit.max, or when
\* the reallocation to a larger size fails; otherwise the buffer is extended
\* by zero-filled pages and the page count updated in the same step.
WasmEdge_MemoryInstanceGrowPage(ptr, count, canAlloc) ==
    LET new_count == memctx.pages + count
    IN  IF new_count > U32Max \/ new_count > memctx.Max
           \/ (count > 0 /\ (~canAlloc \/ new_count > MaxPages))
        THEN [code |-> "MemoryOutOfBounds", ctx |-> memctx]
        ELSE [code |-> "Success",
              ctx |-> [memctx EXCEPT !.pages = new_count,
                                     !.data = memctx.data \o Zeros(count * PageSize)]]

\* WasmEdge_MemoryTypeDelete / WasmEdge_MemoryInstanceDelete: the storage is
\* gone.  Deleting anything but a live context that was allocated on its own (a
\* context already deleted, a pointer into an instance) corrupts the heap.
WasmEdge_MemoryTypeDelete(ptr) ==
    IF ptr = TypeHandle /\ typectx.live
    THEN [typectx |-> NoTypeCtx, fault |-> fault]
    ELSE [typectx |-> typectx, fault |-> TRUE]
WasmEdge_MemoryInstanceDelete(ptr) ==
    IF ptr = MemHandle /\ memctx.live
    THEN [memctx |-> NoMemCtx, fault |-> fault]
    ELSE [memctx |-> memctx, fault |-> TRUE]

\* ------------------------------------------------------ memory.rs: MemType
\* MemType::create without the is_null test: whatever the C API returned is
\* wrapped as an owned MemType.
MemType_create_unchecked(limit) ==
    LET c == WasmEdge_MemoryTypeCreate(LimitFromRange(limit))
    IN  [res |-> Ok(<< >>),
         value |-> [some |-> TRUE, inner |-> c.ptr, registered |-> FALSE],
         ctx |-> c.ctx]

\* MemType::create that marks its result registered, as Memory::ty does.
MemType_create_registered(limit) ==
    LET c == WasmEdge_MemoryTypeCreate(LimitFromRange(limit))
    IN  IF c.ptr = NULL
        THEN [res |-> Err("MemTypeCreate"), value |-> NoValue, ctx |-> c.ctx]
        ELSE [res |-> Ok(<< >>),
              value |-> [some |-> TRUE, inner |-> c.ptr, registered |-> TRUE],
              ctx |-> c.ctx]

\* MemType::create: a null context is Err(MemTypeCreate), anything else an
\* owned MemType.
MemType_create(limit) ==
    LET c == WasmEdge_MemoryTypeCreate(LimitFromRange(limit))
    IN  IF c.ptr = NULL
        THEN [res |-> Err("MemTypeCreate"), value |-> NoValue, ctx |-> c.ctx]
        ELSE [res |-> Ok(<< >>),
              value |-> [some |-> TRUE, inner |-> c.ptr, registered |-> FALSE],
              ctx |-> c.ctx]

\* MemType::limit
limit(t) == RangeFromLimit(WasmEdge_MemoryTypeGetLimit(t.inner))

\* impl Drop for MemType without the registered test.
drop_MemType_unconditional(t) ==
    IF t.inner # NULL
    THEN WasmEdge_MemoryTypeDelete(t.inner)
    ELSE [typectx |-> typectx, fault |-> fault]

\* impl Drop for MemType: the heap after the drop.
drop_MemType(t) ==
    IF ~t.registered /\ t.inner # NULL
    THEN WasmEdge_MemoryTypeDelete(t.inner)
    ELSE [typectx |-> typectx, fault |-> fault]

\* ------------------------------------------------------- memory.rs: Memory
\* Memory::create that marks its result registered.
Memory_create_registered(t, canAlloc) ==
    LET c == WasmEdge_MemoryInstanceCreate(t.inner, canAlloc)
    IN  IF c.ptr = NULL
        THEN [res |-> Err("Mem::Create"), value |-> NoValue, ctx |-> c.ctx]
        ELSE [res |-> Ok(<< >>),
              value |-> [some |-> TRUE, inner |-> c.ptr, registered |-> TRUE],
              ctx |-> c.ctx]

\* Memory::create
Memory_create(t, canAlloc) ==
    LET c == WasmEdge_MemoryInstanceCreate(t.inner, canAlloc)
    IN  IF c.ptr = NULL
        THEN [res |-> Err("Mem::Create"), value |-> NoValue, ctx |-> c.ctx]
        ELSE [res |-> Ok(<< >>),
              value |-> [some |-> TRUE, inner |-> c.ptr, registered |-> FALSE],
              ctx |-> c.ctx]

\* Memory::ty that returns an owned MemType (registered: false).
ty_owned(m) ==
    LET ty_ctx == WasmEdge_MemoryInstanceGetMemoryType(m.inner)
    IN  IF ty_ctx = NULL THEN Err("Mem::Type") ELSE Ok(<<ty_ctx, 0>>)

\* Memory::ty: the MemType it returns, as <<inner, registered>> (1 for true).
ty(m) ==
    LET ty_ctx == WasmEdge_MemoryInstanceGetMemoryType(m.inner)
    IN  IF ty_ctx = NULL THEN Err("Mem::Type") ELSE Ok(<<ty_ctx, 1>>)

\* Memory::get_data without the set_len: the Vec keeps length 0.
get_data_no_set_len(m, offset, len) ==
    LET r == WasmEdge_MemoryInstanceGetData(m.inner, offset, len)
    IN  IF ~check(r.code).ok THEN check(r.code) ELSE Ok(<< >>)

\* Memory::get_data with a bounds test of its own on the u32 sum offset + len,
\* which wraps, in front of an unchecked copy.
get_data_wrapping(m, offset, len) ==
    IF AsU32(offset + len) <= WasmEdge_MemoryInstanceGetPageSize(m.inner) * PageSize
    THEN Ok([i \in 1 .. len |->
               IF offset + i <= Len(memctx.data) THEN memctx.data[offset + i] ELSE 0])
    ELSE Err("MemoryOutOfBounds")

\* Memory::get_data: the Vec is given length len once the call has succeeded.
get_data(m, offset, len) ==
    LET r == WasmEdge_MemoryInstanceGetData(m.inner, offset, len)
    IN  IF ~check(r.code).ok THEN check(r.code) ELSE Ok(SubSeq(r.out, 1, len))

\* Memory::set_data: the length passed on is data.len() as u32.
set_data(m, data, offset) ==
    LET r == WasmEdge_MemoryInstanceSetData(m.inner, data, offset, AsU32(Len(data)))
    IN  [res |-> check(r.code), ctx |-> r.ctx]

\* Memory::data_pointer without the is_null test.
data_pointer_unchecked(m, offset, len) ==
    Ok(<<WasmEdge_MemoryInstanceGetPointerConst(m.inner, offset, len)>>)

\* Memory::data_pointer
data_pointer(m, offset, len) ==
    LET ptr == WasmEdge_MemoryInstanceGetPointerConst(m.inner, offset, len)
    IN  IF ptr = NULL THEN Err("Mem::ConstPtr") ELSE Ok(<<ptr>>)

\* Memory::data_pointer_mut
data_pointer_mut(m, offset, len) ==
    LET ptr == WasmEdge_MemoryInstanceGetPointer(m.inner, offset, len)
    IN  IF ptr = NULL THEN Err("Mem::MutPtr") ELSE Ok(<<ptr>>)

\* Memory::size reporting the size in bytes.
size_in_bytes(m) == AsU32(WasmEdge_MemoryInstanceGetPageSize(m.inner) * PageSize)

\* Memory::size narrowed to a type too small for the page count.
size_narrow(m) == WasmEdge_MemoryInstanceGetPageSize(m.inner) % MaxPages

\* Memory::size
size(m) == AsU32(WasmEdge_MemoryInstanceGetPageSize(m.inner))

\* Memory::grow without check(): the result code is dropped.
grow_unchecked(m, count, canAlloc) ==
    LET r == WasmEdge_MemoryInstanceGrowPage(m.inner, count, canAlloc)
    IN  [res |-> Ok(<< >>), ctx |-> r.ctx]

\* Memory::grow that also moves the stored minimum to the new size, as a
\* memory type that tracks the current size would.
grow_updating_type(m, count, canAlloc) ==
    LET r == WasmEdge_MemoryInstanceGrowPage(m.inner, count, canAlloc)
    IN  [res |-> check(r.code), ctx |-> [r.ctx EXCEPT !.Min = r.ctx.pages]]

\* Memory::grow that leaves the instance with a fresh zero-filled buffer of the
\* new size, as making a new instance in place of the old one would.
grow_fresh_buffer(m, count, canAlloc) ==
    LET r == WasmEdge_MemoryInstanceGrowPage(m.inner, count, canAlloc)
    IN  [res |-> check(r.code),
         ctx |-> IF check(r.code).ok
                 THEN [r.ctx EXCEPT !.data = Zeros(r.ctx.pages * PageSize)]
                 ELSE r.ctx]

\* Memory::grow
grow(m, count, canAlloc) ==
    LET r == WasmEdge_MemoryInstanceGrowPage(m.inner, count, canAlloc)
    IN  [res |-> check(r.code), ctx |-> r.ctx]

\* impl Drop for Memory: the heap after the drop.
drop_Memory(m) ==
    IF ~m.registered /\ m.inner # NULL
    THEN WasmEdge_MemoryInstanceDelete(m.inner)
    ELSE [memctx |-> memctx, fault |-> fault]

\* The borrows the receivers ask for.  data_pointer(&self) -> &u8 and
\* data_pointer_mut(&mut self) -> &mut u8 return references that keep the
\* Memory borrowed; a &mut self method (and a drop) needs the Memory unborrowed,
\* a &self method needs it not mutably borrowed.  As if the references did not
\* borrow the Memory:
ExclusiveBorrow_unchecked == TRUE
ExclusiveBorrow == ~view.some
SharedBorrow == ~(view.some /\ view.mut)

\* ------------------------------------------------------------ actions
Init ==
    /\ memtype = NoValue
    /\ typectx = NoTypeCtx
    /\ memory = NoValue
    /\ memctx = NoMemCtx
    /\ dirty = FALSE
    /\ ret = Call("init", 0, 0, << >>, Ok(<< >>))
    /\ created = NoLimit
    /\ tyview = NoTyView
    /\ fault = FALSE
    /\ view = NoView
    /\ readers = NoReaders

\* The host holds one descriptor and one instance at a time, and builds the
\* descriptor before the instance.
MemTypeCreate ==
    /\ ~memtype.some
    /\ ~memory.some
    /\ \E min \in U32, max \in U32 :
         LET r == MemType_create(<<min, max>>)
         IN  /\ memtype' = r.value
             /\ typectx' = r.ctx
             /\ ret' = Call("MemType::create", min, max, << >>, r.res)
    /\ UNCHANGED <<memory, memctx, dirty, created, tyview, fault, view, readers>>

MemTypeLimit ==
    /\ memtype.some
    /\ ret' = Call("MemType::limit", 0, 0, << >>, Ok(limit(memtype)))
    /\ UNCHANGED <<memtype, typectx, memory, memctx, dirty,
                   created, tyview, fault, view, readers>>

MemTypeDrop ==
    /\ memtype.some
    /\ typectx' = drop_MemType(memtype).typectx
    /\ fault' = drop_MemType(memtype).fault
    /\ memtype' = NoValue
    /\ ret' = Call("MemType::drop", 0, 0, << >>, Ok(<< >>))
    /\ UNCHANGED <<memory, memctx, dirty, created, tyview, view, readers>>

MemoryCreate ==
    /\ memtype.some
    /\ ~memory.some
    /\ \E canAlloc \in BOOLEAN :
         LET r == Memory_create(memtype, canAlloc)
             lim == limit(memtype)
         IN  /\ memory' = r.value
             /\ memctx' = r.ctx
             /\ created' = IF r.res.ok THEN lim ELSE NoLimit
             /\ ret' = Call("Memory::create", lim[1], lim[2], << >>, r.res)
    /\ dirty' = FALSE
    /\ UNCHANGED <<memtype, typectx, tyview, fault, view, readers>>

MemoryTy ==
    /\ memory.some
    /\ SharedBorrow
    /\ ret' = Call("ty", 0, 0, << >>, ty(memory))
    /\ UNCHANGED <<memtype, typectx, memory, memctx, dirty,
                   created, tyview, fault, view, readers>>

MemorySize ==
    /\ memory.some
    /\ SharedBorrow
    /\ ret' = Call("size", 0, 0, << >>, Ok(<<size(memory)>>))
    /\ UNCHANGED <<memtype, typectx, memory, memctx, dirty,
                   created, tyview, fault, view, readers>>

GetData ==
    /\ memory.some
    /\ SharedBorrow
    /\ \E offset \in U32, len \in U32 :
         ret' = Call("get_data", offset, len, << >>, get_data(memory, offset, len))
    /\ UNCHANGED <<memtype, typectx, memory, memctx, dirty,
                   created, tyview, fault, view, readers>>

SetData ==
    /\ memory.some
    /\ ExclusiveBorrow
    /\ \E data \in DataInputs, offset \in U32 :
         LET r == set_data(memory, data, offset)
         IN  /\ memctx' = r.ctx
             /\ dirty' = (dirty \/ r.res.ok)
             /\ ret' = Call("set_data", offset, Len(data), data, r.res)
    /\ UNCHANGED <<memtype, typectx, memory, created, tyview, fault, view, readers>>

DataPointer ==
    /\ memory.some
    /\ SharedBorrow
    /\ \E offset \in U32, len \in U32 :
         ret' = Call("data_pointer", offset, len, << >>,
                     data_pointer(memory, offset, len))
    /\ UNCHANGED <<memtype, typectx, memory, memctx, dirty,
                   created, tyview, fault, view, readers>>

DataPointerMut ==
    /\ memory.some
    /\ ExclusiveBorrow
    /\ \E offset \in U32, len \in U32 :
         ret' = Call("data_pointer_mut", offset, len, << >>,
                     data_pointer_mut(memory, offset, len))
    /\ UNCHANGED <<memtype, typectx, memory, memctx, dirty,
                   created, tyview, fault, view, readers>>

\* The host stores a byte through the &mut u8 that data_pointer_mut returned
\* for a range of at least one byte.  The borrow of the Memory lasts as long as
\* the reference, so no other call comes in between.
WriteView ==
    /\ memory.some
    /\ ret.op \in {"data_pointer_mut", "write_view"}
    /\ ret.ok
    /\ ret.len >= 1
    /\ \E b \in Byte :
         /\ memctx' = [memctx EXCEPT !.data[ret.val[1]] = b]
         /\ ret' = [ret EXCEPT !.op = "write_view", !.data = <<b>>]
    /\ dirty' = TRUE
    /\ UNCHANGED <<memtype, typectx, memory, created, tyview, fault, view, readers>>

Grow ==
    /\ memory.some
    /\ ExclusiveBorrow
    /\ \E count \in U32, canAlloc \in BOOLEAN :
         LET r == grow(memory, count, canAlloc)
         IN  /\ memctx' = r.ctx
             /\ ret' = Call("grow", 0, count, << >>, r.res)
    /\ UNCHANGED <<memtype, typectx, memory, dirty, created, tyview, fault, view, readers>>

MemoryDrop ==
    /\ memory.some
    /\ ExclusiveBorrow
    /\ memctx' = drop_Memory(memory).memctx
    /\ fault' = drop_Memory(memory).fault
    /\ memory' = NoValue
    /\ dirty' = FALSE
    /\ created' = NoLimit
    /\ tyview' = IF tyview.some /\ ~memctx'.live
                 THEN [tyview EXCEPT !.dangling = TRUE] ELSE tyview
    /\ ret' = Call("Memory::drop", 0, 0, << >>, Ok(<< >>))
    /\ UNCHANGED <<memtype, typectx, view, readers>>

Next ==
    \/ MemTypeCreate
    \/ MemTypeLimit
    \/ MemTypeDrop
    \/ MemoryCreate
    \/ MemoryTy
    \/ MemorySize
    \/ GetData
    \/ SetData
    \/ DataPointer
    \/ DataPointerMut
    \/ WriteView
    \/ Grow
    \/ MemoryDrop

Spec == Init /\ [][Next]_vars

\* ------------------------------------- a host that keeps what ty() returns
\* Memory::ty returns a MemType by value, with no lifetime tying it to the
\* Memory: the host may keep it, ask it for its limit, and drop it, before or
\* after the Memory is dropped.
MemoryTyKeep ==
    /\ memory.some
    /\ SharedBorrow
    /\ ~tyview.some
    /\ LET r == ty(memory)
       IN  /\ r.ok
           /\ tyview' = [some |-> TRUE, inner |-> r.val[1],
                         registered |-> (r.val[2] = 1), dangling |-> FALSE]
           /\ ret' = Call("ty", 0, 0, << >>, r)
    /\ UNCHANGED <<memtype, typectx, memory, memctx, dirty,
                   created, fault, view, readers>>

\* MemType::limit on the kept MemType.  Once the instance is gone the pointer
\* dangles and the read is of freed storage: any range may come back.
TyViewLimit ==
    /\ tyview.some
    /\ \E min \in U32, max \in U32 :
         /\ ~tyview.dangling => <<min, max>> = limit(tyview)
         /\ ret' = Call("ty.limit", 0, 0, << >>, Ok(<<min, max>>))
    /\ UNCHANGED <<memtype, typectx, memory, memctx, dirty,
                   created, tyview, fault, view, readers>>

\* impl Drop for MemType on the kept MemType.
TyViewDrop ==
    /\ tyview.some
    /\ typectx' = drop_MemType(tyview).typectx
    /\ fault' = drop_MemType(tyview).fault
    /\ tyview' = NoTyView
    /\ ret' = Call("ty.drop", 0, 0, << >>, Ok(<< >>))
    /\ UNCHANGED <<memtype, memory, memctx, dirty, created, view, readers>>

NextOwn ==
    \/ MemTypeCreate
    \/ MemTypeLimit
    \/ MemTypeDrop
    \/ MemoryCreate
    \/ MemoryTyKeep
    \/ TyViewLimit
    \/ TyViewDrop
    \/ MemorySize
    \/ SetData
    \/ Grow
    \/ MemoryDrop

SpecOwn == Init /\ [][NextOwn]_vars

\* ------------------------ a host that keeps what data_pointer(_mut) returns
\* The host holds one reference at a time.  pages records the buffer the
\* reference points into; the reference is valid while that buffer is the
\* instance's buffer.
ViewValid == memctx.live /\ view.pages = memctx.pages

DataPointerKeep ==
    /\ memory.some
    /\ SharedBorrow
    /\ ~view.some
    /\ \E offset \in U32, len \in U32 :
         LET r == data_pointer(memory, offset, len)
         IN  /\ view' = IF r.ok
                        THEN [some |-> TRUE, addr |-> r.val[1], len |-> len,
                              mut |-> FALSE, pages |-> memctx.pages]
                        ELSE view
             /\ ret' = Call("data_pointer", offset, len, << >>, r)
    /\ UNCHANGED <<memtype, typectx, memory, memctx, dirty,
                   created, tyview, fault, readers>>

DataPointerMutKeep ==
    /\ memory.some
    /\ ExclusiveBorrow
    /\ \E offset \in U32, len \in U32 :
         LET r == data_pointer_mut(memory, offset, len)
         IN  /\ view' = IF r.ok
                        THEN [some |-> TRUE, addr |-> r.val[1], len |-> len,
                              mut |-> TRUE, pages |-> memctx.pages]
                        ELSE view
             /\ ret' = Call("data_pointer_mut", offset, len, << >>, r)
    /\ UNCHANGED <<memtype, typectx, memory, memctx, dirty,
                   created, tyview, fault, readers>>

\* A load through the reference.  The reference is to one byte whatever len
\* was; for len = 0 at the end of the buffer it points past the buffer.  A
\* load from outside the instance's buffer may give any byte.
ViewRead ==
    /\ view.some
    /\ \E b \in Byte :
         /\ (ViewValid /\ view.addr <= Len(memctx.data)) => b = memctx.data[view.addr]
         /\ ret' = Call("view.read", view.addr - 1, view.len, << >>, Ok(<<b>>))
    /\ UNCHANGED <<memtype, typectx, memory, memctx, dirty,
                   created, tyview, fault, view, readers>>

\* A store through a &mut u8.  A store outside the instance's buffer corrupts
\* the heap.
ViewWrite ==
    /\ view.some
    /\ view.mut
    /\ \E b \in Byte :
         /\ IF ViewValid /\ view.addr <= Len(memctx.data)
            THEN /\ memctx' = [memctx EXCEPT !.data[view.addr] = b]
                 /\ dirty' = TRUE
                 /\ fault' = fault
            ELSE /\ fault' = TRUE
                 /\ UNCHANGED <<memctx, dirty>>
         /\ ret' = Call("view.write", view.addr - 1, view.len, <<b>>, Ok(<< >>))
    /\ UNCHANGED <<memtype, typectx, memory, created, tyview, view, readers>>

\* The reference's last use is behind it: the borrow of the Memory ends.
ViewRelease ==
    /\ view.some
    /\ view' = NoView
    /\ UNCHANGED <<memtype, typectx, memory, memctx, dirty, ret,
                   created, tyview, fault, readers>>

NextViews ==
    \/ MemTypeCreate
    \/ MemoryCreate
    \/ DataPointerKeep
    \/ DataPointerMutKeep
    \/ ViewRead
    \/ ViewWrite
    \/ ViewRelease
    \/ Grow
    \/ MemoryDrop

SpecViews == Init /\ [][NextViews]_vars

\* --------------------------------------- threads sharing one instance
\* Memory is Send and Sync (unsafe impl for InnerMemory), and get_data takes
\* &self: any number of threads may be inside get_data on one instance at
\* once, while set_data and grow (&mut self) cannot run until they are out.
\* One get_data is a bounds check followed by a copy made byte by byte
\* into the thread's own Vec, then set_len and the return.  Every thread asks
\* for the same range readers.off, readers.len.
\*
\* The instance the threads share: any size, any contents.
InitReaders ==
    /\ memtype = NoValue
    /\ typectx = NoTypeCtx
    /\ memory = [some |-> TRUE, inner |-> MemHandle, registered |-> FALSE]
    /\ \E pages \in 0 .. MaxPages :
         /\ \E data \in [1 .. pages * PageSize -> Byte] :
              /\ memctx = [live |-> TRUE, Min |-> pages, Max |-> pages,
                           pages |-> pages, data |-> data]
              /\ dirty = (data # Zeros(pages * PageSize))
         /\ created = <<pages, pages>>
         /\ ret = Call("size", 0, 0, << >>, Ok(<<pages>>))
    /\ tyview = NoTyView
    /\ fault = FALSE
    /\ view = NoView
    /\ \E offset \in U32, len \in U32 :
         readers = [off |-> offset, len |-> len,
                    th |-> [t \in Threads |->
                              [pc |-> "idle", out |-> << >>, res |-> Ok(<< >>)]]]

\* get_data's ending without the set_len.
get_data_finish_no_set_len(out, len) == Ok(<< >>)

\* get_data's ending: set_len(len) and the Vec returned.
get_data_finish(out, len) == Ok(SubSeq(out, 1, len))

\* Vec::with_capacity and the C API's bounds check.
ReaderCall(t) ==
    /\ readers.th[t].pc = "idle"
    /\ LET r == WasmEdge_MemoryInstanceGetData(memory.inner, readers.off, readers.len)
       IN  IF check(r.code).ok
           THEN /\ readers' = [readers EXCEPT !.th[t].pc = "copy", !.th[t].out = << >>]
                /\ ret' = ret
           ELSE /\ readers' = [readers EXCEPT !.th[t].pc = "done",
                                              !.th[t].res = check(r.code)]
                /\ ret' = Call("get_data", readers.off, readers.len, << >>, check(r.code))
    /\ UNCHANGED <<memtype, typectx, memory, memctx, dirty, created, tyview, fault, view>>

\* The C API copies the next byte into the thread's Vec.
ReaderCopy(t) ==
    /\ readers.th[t].pc = "copy"
    /\ Len(readers.th[t].out) < readers.len
    /\ readers' = [readers EXCEPT !.th[t].out =
                      Append(@, memctx.data[readers.off + Len(@) + 1])]
    /\ UNCHANGED <<memtype, typectx, memory, memctx, dirty, ret,
                   created, tyview, fault, view>>

ReaderReturn(t) ==
    /\ readers.th[t].pc = "copy"
    /\ Len(readers.th[t].out) = readers.len
    /\ LET r == get_data_finish(readers.th[t].out, readers.len)
       IN  /\ readers' = [readers EXCEPT !.th[t].pc = "done", !.th[t].res = r]
           /\ ret' = Call("get_data", readers.off, readers.len, << >>, r)
    /\ UNCHANGED <<memtype, typectx, memory, memctx, dirty, created, tyview, fault, view>>

NextReaders ==
    \/ \E t \in Threads : ReaderCall(t)
    \/ \E t \in Threads : ReaderCopy(t)
    \/ \E t \in Threads : ReaderReturn(t)

SpecReaders == InitReaders /\ [][NextReaders]_vars

\* -------------------------------------------------------- properties
\* The size of the live instance in bytes, and the limit it reports.
SizeBytes == size(memory) * PageSize
InstanceLimit == limit([some |-> TRUE, inner |-> ty(memory).val[1], registered |-> TRUE])

\* The bytes at addresses a .. a + n - 1 of the instance's buffer.
BytesAt(a, n) == [i \in 1 .. n |-> memctx.data[a + i]]

\* C1: every get_data(offset, len) and every set_data(data, offset), len the
\* length of data, with offset + len > size() * PageSize fails with
\* MemoryOutOfBounds and leaves the buffer and size() as they were.
C1_OutOfBoundsAccessFails ==
    [][(ret'.op \in {"get_data", "set_data"} /\ ret' # ret
        /\ ret'.off + ret'.len > SizeBytes)
       => (/\ ~ret'.ok
           /\ ret'.err = "MemoryOutOfBounds"
           /\ memctx' = memctx)]_vars

\* C2: a live instance has min <= size() <= max, for the limit (min, max) it
\* was created from, whatever calls came before.
C2_SizeWithinLimit ==
    memory.some => (InstanceLimit[1] <= size(memory) /\ size(memory) <= InstanceLimit[2])

C2_Witness ==
    /\ memory.some
    /\ ret.op = "grow" /\ ret.ok
    /\ InstanceLimit[1] < size(memory)
    /\ size(memory) = InstanceLimit[2]

\* C3 as stated: grow(k) with size() + k <= limit.max succeeds, size() becomes
\* the previous size() + k and every newly added byte reads as zero.
GrowStep == ret'.op = "grow" /\ memory.some /\ memory'.some
GrewBy(k) ==
    /\ ret'.ok
    /\ size(memory)' = size(memory) + k
    /\ \A a \in U32 :
         (SizeBytes <= a /\ a < SizeBytes')
           => get_data(memory, a, 1)' = Ok(<<0>>)
C3_GrowWithinLimitSucceeds ==
    [][(GrowStep /\ size(memory) + ret'.len <= InstanceLimit[2])
       => GrewBy(ret'.len)]_vars

\* C3 amended: grow(k) with size() + k <= limit.max either succeeds, and then
\* size() is the previous size() + k and every newly added byte reads as zero,
\* or fails because the buffer cannot be reallocated, and then size() and the
\* contents are unchanged.
C3_GrowWithinLimit ==
    [][(GrowStep /\ size(memory) + ret'.len <= InstanceLimit[2])
       => \/ GrewBy(ret'.len)
          \/ (~ret'.ok /\ ret'.len > 0 /\ memctx' = memctx)]_vars

C3_Witness ==
    /\ ret.op = "grow" /\ ret.ok /\ ret.len > 0
    /\ dirty
    /\ size(memory) = ret.len + 1

\* C4: grow(k) with size() + k > limit.max, the sum taken in the integers,
\* returns an error and leaves size() and the buffer unchanged.
C4_GrowBeyondLimitFails ==
    [][(GrowStep /\ size(memory) + ret'.len > InstanceLimit[2])
       => (~ret'.ok /\ size(memory)' = size(memory) /\ memctx' = memctx)]_vars

\* A failed grow(k) at size() = limit.max whose sum does not fit a u32.
C4_Witness ==
    /\ ret.op = "grow" /\ ~ret.ok
    /\ memory.some
    /\ size(memory) = InstanceLimit[2]
    /\ size(memory) + ret.len > U32Max

\* C5: set_data(D, offset) with offset + length(D) <= size() * PageSize
\* succeeds, and reading the range back right after (get_data(offset,
\* length(D)) where the length is a u32) gives exactly D.
C5_WriteThenRead ==
    [][\A D \in DataInputs, offset \in U32 :
         (/\ ret'.op = "set_data" /\ ret' # ret
          /\ ret'.data = D /\ ret'.off = offset
          /\ offset + Len(D) <= SizeBytes)
         => (/\ ret'.ok
             /\ BytesAt(offset, Len(D))' = D
             /\ (Len(D) \in U32 => get_data(memory, offset, Len(D))' = Ok(D)))]_vars

\* C6: MemType::create(min..=max) with min > max fails with MemTypeCreate (the
\* InvalidRange error) and leaves the host without a descriptor.
C6_InvalidRangeFails ==
    (ret.op = "MemType::create" /\ ret.off > ret.len)
      => (/\ ~ret.ok
          /\ ret.err = "MemTypeCreate"
          /\ ~memtype.some
          /\ ~typectx.live)

C6_Witness ==
    ret.op = "MemType::create" /\ ret.off > ret.len /\ ~ret.ok

\* C7: MemType::create(min..=max) with min <= max, u32::MAX included, succeeds
\* with an owned descriptor whose limit() is exactly min..=max.
C7_CreateRoundTrip ==
    (ret.op = "MemType::create" /\ ret.off <= ret.len)
      => (/\ ret.ok
          /\ memtype.some
          /\ memtype.inner # NULL
          /\ ~memtype.registered
          /\ limit(memtype) = <<ret.off, ret.len>>)

C7_Witness ==
    /\ ret.op = "MemType::create" /\ ret.ok
    /\ ret.off = 1 /\ ret.len = U32Max
    /\ limit(memtype) = <<1, U32Max>>

\* C8: right after a successful Memory::create the instance is owned (not
\* registered) and size() is limit.min.
C8_CreateSizeIsMin ==
    (ret.op = "Memory::create" /\ ret.ok)
      => (/\ memory.some
          /\ memory.inner # NULL
          /\ ~memory.registered
          /\ size(memory) = ret.off)

C8_Witness ==
    /\ ret.op = "Memory::create" /\ ret.ok
    /\ ret.off > 0
    /\ size(memory) = ret.off

\* C9: while no set_data has succeeded and no mutable view has been written,
\* get_data(offset, N) on any in-bounds range returns N zero bytes.
C9_FreshReadsZero ==
    (ret.op = "get_data" /\ ~dirty /\ ret.off + ret.len <= SizeBytes)
      => (ret.ok /\ ret.val = Zeros(ret.len))

C9_Witness ==
    /\ ret.op = "get_data" /\ ~dirty /\ ret.ok
    /\ ret.off > 0 /\ ret.len > 1
    /\ ret.off + ret.len = SizeBytes

\* C10: no call on a live instance makes size() smaller.
C10_SizeNeverShrinks ==
    [][(memory.some /\ memory'.some) => size(memory)' >= size(memory)]_vars

\* The size() reported after two growths, the second a failure.
C10_Witness ==
    /\ memory.some
    /\ ret.op = "grow" /\ ~ret.ok /\ ret.len = 1
    /\ size(memory) = InstanceLimit[1] + 2

\* C11: while the instance lives, the MemType that Memory::ty returns, fresh or
\* kept by the host from an earlier call, reports through limit() the range
\* the instance was created from; grows, failed grows and writes do not
\* change it.
C11_TyReportsCreationLimit ==
    memory.some
      => (/\ ty(memory).ok
          /\ InstanceLimit = created
          /\ (tyview.some /\ ~tyview.dangling) => limit(tyview) = created)

\* limit() on a MemType kept across a write and a grow.
C11_Witness ==
    /\ memory.some
    /\ ret.op = "ty.limit" /\ ret.val = created
    /\ ~tyview.dangling
    /\ dirty
    /\ size(memory) > created[1]

\* C12 as stated: data_pointer(offset, len) and data_pointer_mut(offset, len)
\* succeed exactly when get_data(offset, len) would, and with offset + len >
\* size() * PageSize they fail with the error get_data fails with,
\* MemoryOutOfBounds.
PointerCall == memory.some /\ ret.op \in {"data_pointer", "data_pointer_mut"}
C13_ConcurrentReads ==
    [][/\ memory' = memory
       /\ memctx' = memctx
       /\ \A t \in Threads :
            readers'.th[t].pc = "done"
              => readers'.th[t].res = get_data(memory, readers.off, readers.len)]_vars

\* One thread has returned both byte values while another is in the middle of
\* its copy.
C13_Witness ==
    \E t \in DOMAIN readers.th, u \in DOMAIN readers.th :
        /\ t # u
        /\ readers.th[t].pc = "done" /\ readers.th[t].res.ok
        /\ \E i, j \in 1 .. Len(readers.th[t].res.val) :
             readers.th[t].res.val[i] # readers.th[t].res.val[j]
        /\ readers.th[u].pc = "copy"
        /\ 0 < Len(readers.th[u].out) /\ Len(readers.th[u].out) < readers.len

\* C14: a reference got from data_pointer or data_pointer_mut is never held
\* across a grow: whenever the host holds one, the instance is alive and its
\* buffer is the one the reference was issued for, at the size() it had then.
C14_NoViewAcrossGrow ==
    view.some => (memory.some /\ ViewValid /\ view.pages = size(memory))

\* A reference issued after a growth, in use.
C14_Witness ==
    /\ view.some
    /\ ret.op = "view.read"
    /\ size(memory) > created[1]

\* C15: the drop of a MemType or of a Memory deletes the context behind it
\* exactly when the value is not registered and its handle is not null; no
\* context is deleted twice, and the drop of a registered value (the MemType
\* from Memory::ty, whose context the instance owns) deletes nothing.
C15_DropFreesOwnedOnly ==
    [][/\ (memtype.some /\ ~memtype'.some)
            => ((typectx.live /\ ~typectx'.live)
                  <=> (~memtype.registered /\ memtype.inner # NULL))
       /\ (memory.some /\ ~memory'.some)
            => ((memctx.live /\ ~memctx'.live)
                  <=> (~memory.registered /\ memory.inner # NULL))
       /\ (tyview.some /\ ~tyview'.some)
            => ((typectx' # typectx \/ memctx' # memctx)
                  <=> (~tyview.registered /\ tyview.inner # NULL))
       /\ ~fault']_vars

\* The MemType from Memory::ty has just been dropped, after the host's own
\* MemType was dropped and its context deleted; the instance is still there.
C15_Witness ==
    /\ ret.op = "ty.drop"
    /\ memory.some /\ memctx.live
    /\ ~memtype.some /\ ~typectx.live
    /\ ~fault

\* C16: the MemType that Memory::ty returns is registered, and dropping it
\* leaves the instance and its descriptor storage as they were: Memory::ty
\* still succeeds afterwards and reports the range the instance was created
\* from.
C16_TyViewIsRegistered ==
    [][/\ (~tyview.some /\ tyview'.some) => tyview'.registered
       /\ (tyview.some /\ ~tyview'.some)
            => (/\ memctx' = memctx
                /\ typectx' = typectx
                /\ ~fault'
                /\ memory.some => (ty(memory)'.ok /\ InstanceLimit' = created'))]_vars

\* The MemType from Memory::ty dropped on an instance that was written to and
\* whose range is not a single size.
C16_Witness ==
    /\ ret.op = "ty.drop"
    /\ memory.some
    /\ dirty
    /\ created[1] < created[2]
    /\ InstanceLimit = created

\* C17 as stated: get_data, set_data, data_pointer and data_pointer_mut, called
\* with a u32 offset and a u32 len whose sum does not fit a u32, fail with
\* MemoryOutOfBounds.
WrappingCall ==
    /\ memory.some
    /\ ret.op \in {"get_data", "set_data", "data_pointer", "data_pointer_mut"}
    /\ ret.len \in U32
    /\ ret.off + ret.len > U32Max
C18_NoSilentTruncation ==
    [][\A D \in DataInputs, offset \in U32 :
         (/\ ret'.op = "set_data" /\ ret' # ret
          /\ ret'.data = D /\ ret'.off = offset)
         => \/ /\ ret'.ok
               /\ offset + Len(D) <= SizeBytes
               /\ BytesAt(offset, Len(D))' = D
            \/ /\ ~ret'.ok
               /\ ret'.err = "MemoryOutOfBounds"
               /\ memctx' = memctx]_vars

\* C19: in every state of a live instance the buffer is size() * PageSize
\* bytes long, whatever grows came before; a get_data, set_data, data_pointer
\* or data_pointer_mut whose range ends exactly there succeeds, and one whose
\* range ends one byte later fails.
C19_BufferLengthIsSize ==
    memory.some
      => (/\ Len(memctx.data) = SizeBytes
          /\ \A offset \in U32, len \in U32 :
               /\ offset + len = SizeBytes
                    => (/\ get_data(memory, offset, len).ok
                        /\ data_pointer(memory, offset, len).ok
                        /\ data_pointer_mut(memory, offset, len).ok)
               /\ offset + len = SizeBytes + 1
                    => (/\ ~get_data(memory, offset, len).ok
                        /\ ~data_pointer(memory, offset, len).ok
                        /\ ~data_pointer_mut(memory, offset, len).ok)
          /\ ret.op = "set_data"
               => (/\ ret.off + Len(ret.data) = SizeBytes => ret.ok
                   /\ ret.off + Len(ret.data) = SizeBytes + 1 => ~ret.ok))

\* C20: a grow, successful or not, leaves every byte below the old size() *
\* PageSize as it was, read from the buffer or through get_data; a failed
\* grow leaves the whole buffer as it was.
C20_GrowPreservesContents ==
    [][GrowStep
       => (/\ SubSeq(memctx'.data, 1, SizeBytes) = memctx.data
           /\ \A a \in U32 :
                a < SizeBytes => get_data(memory, a, 1)' = get_data(memory, a, 1)
           /\ ~ret'.ok => memctx'.data = memctx.data)]_vars

\* After a growth by ret.len pages, a byte written before it is still there.
C20_Witness ==
    /\ ret.op = "grow" /\ ret.ok /\ ret.len > 0
    /\ memory.some
    /\ \E i \in 1 .. (size(memory) - ret.len) * PageSize : memctx.data[i] = 1

====
